---- MODULE Spec2Model ----
(***************************************************************************)
(* Model of trezor_agent: the orchestrator (__main__.py: main, run_agent,  *)
(* git_host, ssh_args, ssh_sign), the Client of client.py (__init__,       *)
(* get_public_key, sign_ssh_challenge) over its device, and the challenge  *)
(* decoder (_parse_ssh_blob).                                              *)
(*                                                                         *)
(* Texts (Python str) are sequences of atoms.  The separator characters    *)
(* ":", "/", "@", ".", "=", " " and "\n" are atoms of their own; every     *)
(* other atom ("alice", "example.com", "2222") stands for a run of         *)
(* characters holding no separator.  An argv list is a sequence of texts.  *)
(***************************************************************************)
EXTENDS Integers, Sequences, FiniteSets, TLC

VARIABLES
    pc,          \* position of main / run_agent
    args,        \* argparse namespace: identity, command, shell, connect, git
    conn,        \* scope of `with client_factory(...) as conn`
    label,       \* run_agent local `label`
    command,     \* run_agent local `command`
    use_shell,   \* run_agent local `use_shell`
    public_key,  \* run_agent local `public_key`
    git_output,  \* what `git config --local --list` printed (None before)
    stdout,      \* what was written to sys.stdout
    server,      \* scope of `with server.serve(...) as env`
    child,       \* the subprocess run by server.run_process
    retval,      \* value run_agent returns (None or the child's status)
    exc,         \* exception in flight (None when there is none)
    raised,      \* every exception raised so far in this run, in order
    exit_status, \* status the interpreter hands to the OS (None while running)
    events,      \* history: the externally visible steps taken, in order
    attempts,    \* history: how often each fallible operation was attempted
    signs,       \* sign requests the agent server has handed to the signer
    blob,        \* decoder input (challenge decoder specification)
    parts,       \* how `blob` was built (fields, markers, the damage done)
    decoded,     \* result of _parse_ssh_blob(blob) (None before)
    environ,     \* the os.environ['SHELL'] entry run_agent looked up
    device,      \* the device the Client holds: identity_dict and session
    ops,         \* calls of Client.get_public_key / sign_ssh_challenge
    dev_calls,   \* history: calls that reached the device, in order
    clock        \* wall-clock time, in ticks

vars == <<pc, args, conn, label, command, use_shell, public_key, git_output,
          stdout, server, child, retval, exc, raised, exit_status, events,
          attempts, signs, blob, parts, decoded, environ, device, ops,
          dev_calls, clock>>

orchVars == <<pc, args, conn, label, command, use_shell, public_key,
              git_output, stdout, server, child, retval, exc, raised,
              exit_status, events, attempts, signs>>

decVars == <<blob, parts, decoded>>

cliVars == <<device, ops, dev_calls, clock>>

None == "None"

----------------------------------------------------------------------------
(* Bounds of the model. *)

MaxCmdLen == 2        \* longest positional command line
MaxGitLines == 2      \* most lines of git configuration output
MaxSignRequests == 2  \* most sign requests served in one run
MaxExitStatus == 2    \* child exit statuses are 0..MaxExitStatus
MaxPayload == 1       \* longest payload of a frame of a challenge blob
MaxTrailing == 1      \* most bytes appended after the last frame
MaxKeyCalls == 2       \* most calls of get_public_key made of one Client

----------------------------------------------------------------------------
(* Text helpers: Python str operations on sequences of atoms. *)

Str(a) == <<a>>

\* s[i:] and s[:i] (1-based, inclusive bounds as SubSeq)
From(s, i) == SubSeq(s, i, Len(s))
Upto(s, i) == SubSeq(s, 1, i)

\* index of the first occurrence of atom a in s, 0 when there is none
IndexOf(s, a) ==
    IF \E i \in 1..Len(s) : s[i] = a
    THEN CHOOSE i \in 1..Len(s) : s[i] = a /\ \A j \in 1..(i-1) : s[j] # a
    ELSE 0

\* whether pat occurs in s at position i
OccursAt(s, pat, i) ==
    /\ i >= 1
    /\ i + Len(pat) - 1 <= Len(s)
    /\ SubSeq(s, i, i + Len(pat) - 1) = pat

\* index >= from of the first occurrence of pat in s, 0 when there is none
FindFrom(s, pat, from) ==
    IF \E i \in from..Len(s) : OccursAt(s, pat, i)
    THEN CHOOSE i \in from..Len(s) :
            /\ OccursAt(s, pat, i)
            /\ \A j \in from..(i-1) : ~OccursAt(s, pat, j)
    ELSE 0

\* str.split(sep, 1): <<before, after>> at the first sep, <<s>> without one
Split1(s, sep) ==
    LET i == IndexOf(s, sep)
    IN  IF i = 0 THEN <<s>> ELSE <<Upto(s, i-1), From(s, i+1)>>

\* str.strip(): leading and trailing whitespace removed
RECURSIVE LStrip(_)
LStrip(s) ==
    IF s # <<>> /\ Head(s) \in {" ", "\n"} THEN LStrip(Tail(s)) ELSE s

RECURSIVE RStrip(_)
RStrip(s) ==
    IF s # <<>> /\ s[Len(s)] \in {" ", "\n"}
    THEN RStrip(Upto(s, Len(s)-1)) ELSE s

Strip(s) == LStrip(RStrip(s))

\* sequences over S of length at most n
SeqsUpTo(S, n) == UNION {[1..k -> S] : k \in 0..n}

RECURSIVE Flatten(_)
Flatten(ss) == IF ss = <<>> THEN <<>> ELSE Head(ss) \o Flatten(Tail(ss))

----------------------------------------------------------------------------
(* Identity Parser (client.string_to_identity, used by ssh_args).          *)
(* Grammar: scheme://[user@]host[:port][/path]; the mapping form holds     *)
(* exactly the fields that are present; no host is a FormatError.          *)

\* <<before, after>> at the first occurrence of pat, <<s>> without one
SplitAt(s, pat) ==
    LET i == FindFrom(s, pat, 1)
    IN  IF i = 0 THEN <<s>> ELSE <<Upto(s, i-1), From(s, i + Len(pat))>>

\* the mapping holding the fields that are present
IdentityOf(proto, user, hostport, path) ==
    LET hp   == Split1(hostport, ":")
        all  == [proto |-> proto, user |-> user, host |-> hp[1],
                 port |-> IF Len(hp) = 2 THEN hp[2] ELSE <<>>,
                 path |-> path]
        keys == {k \in DOMAIN all : all[k] # <<>>}
    IN  IF all.host = <<>>
        THEN [ok |-> FALSE, exc |-> "FormatError"]
        ELSE [ok |-> TRUE, value |-> [k \in keys |-> all[k]]]

\* [user@]host[:port] and the path that followed it
AuthorityOf(proto, authority, path) ==
    LET up == Split1(authority, "@")
    IN  IF Len(up) = 2
        THEN IdentityOf(proto, up[1], up[2], path)
        ELSE IdentityOf(proto, <<>>, authority, path)

\* [user@]host[:port][/path]
RestOf(proto, rest) ==
    LET ap == Split1(rest, "/")
    IN  AuthorityOf(proto, ap[1], IF Len(ap) = 2 THEN ap[2] ELSE <<>>)

string_to_identity(text) ==
    LET sp == SplitAt(text, <<":", "/", "/">>)
    IN  IF Len(sp) = 2 THEN RestOf(sp[1], sp[2]) ELSE RestOf(<<>>, text)

\* ssh_args(label): ['ssh'] + ['-p', port]? + ['-l', user]? + [host]
ssh_args_swapped(lbl) ==
    LET r == string_to_identity(lbl)
        identity == r.value
        a1 == IF "user" \in DOMAIN identity
              THEN <<Str("-l"), identity["user"]>> ELSE <<>>
        a2 == IF "port" \in DOMAIN identity
              THEN <<Str("-p"), identity["port"]>> ELSE <<>>
    IN  IF ~r.ok THEN r
        ELSE [ok |-> TRUE,
              value |-> <<Str("ssh")>> \o (a1 \o a2) \o <<identity["host"]>>]

ssh_args(lbl) ==
    LET r == string_to_identity(lbl)
        identity == r.value
        a1 == IF "port" \in DOMAIN identity
              THEN <<Str("-p"), identity["port"]>> ELSE <<>>
        a2 == IF "user" \in DOMAIN identity
              THEN <<Str("-l"), identity["user"]>> ELSE <<>>
    IN  IF ~r.ok THEN r
        ELSE [ok |-> TRUE,
              value |-> <<Str("ssh")>> \o (a1 \o a2) \o <<identity["host"]>>]

----------------------------------------------------------------------------
(* git_host(remote_name)                                                   *)

\* r'remote\.{}\.url=(.*)'.format(remote_name), up to the capture group.
\* The remote name is interpolated unescaped; names here hold no regex
\* metacharacter.
git_pattern(remote_name) ==
    <<"remote", ".">> \o remote_name \o <<".", "url", "=">>

\* re.findall(pattern, output): the capture groups of the non-overlapping
\* matches, left to right.  The pattern is not anchored; (.*) runs to the
\* end of the line.
RECURSIVE findall(_, _, _)
findall(pat, output, from) ==
    LET i == FindFrom(output, pat, from)
    IN  IF i = 0 THEN <<>>
        ELSE LET start == i + Len(pat)
                 nl    == IF \E j \in start..Len(output) : output[j] = "\n"
                          THEN CHOOSE j \in start..Len(output) :
                                 /\ output[j] = "\n"
                                 /\ \A k \in start..(j-1) : output[k] # "\n"
                          ELSE Len(output) + 1
             IN  <<SubSeq(output, start, nl - 1)>> \o findall(pat, output, nl)

\* the guard of line 78
git_matches_ok_first(matches) == Len(matches) >= 1

git_matches_ok(matches) == Len(matches) = 1

git_host(remote_name, output) ==
    LET matches == findall(git_pattern(remote_name), output, 1)
        url     == Strip(matches[1])
        s1      == Split1(url, "@")
        s2      == Split1(s1[2], ":")
    IN  IF ~git_matches_ok(matches)
        THEN [ok |-> FALSE, exc |-> "ValueError", line |-> 79]
        ELSE IF Len(s1) # 2
        THEN [ok |-> FALSE, exc |-> "ValueError", line |-> 81]
        ELSE IF Len(s2) # 2
        THEN [ok |-> FALSE, exc |-> "ValueError", line |-> 82]
        ELSE [ok |-> TRUE,
              value |-> <<"ssh", ":", "/", "/">> \o s1[1] \o <<"@">>
                        \o s2[1] \o <<"/">> \o s2[2]]

----------------------------------------------------------------------------
(* Inputs of a run: the command line, the environment, the local git       *)
(* configuration, the device behind client_factory, the child process.     *)

SshScheme == <<"ssh", ":", "/", "/">>

\* proto://[user@]host[:port][/path] written out from its fields
Render(user, host, port, path) ==
    SshScheme
    \o (IF user # <<>> THEN user \o <<"@">> ELSE <<>>)
    \o host
    \o (IF port # <<>> THEN <<":">> \o port ELSE <<>>)
    \o (IF path # <<>> THEN <<"/">> \o path ELSE <<>>)

OptUsers == {<<>>, <<"alice">>}
OptPorts == {<<>>, <<"2222">>}
OptPaths == {<<>>, <<"repo">>}
Hosts == {<<"example.com">>}
RemoteNames == {<<"origin">>, <<"upstream">>}

IdentityArgs ==
    {Render(u, h, p, pa) : u \in OptUsers, h \in Hosts,
                           p \in OptPorts, pa \in OptPaths}
    \cup RemoteNames
    \cup {SshScheme}          \* an identity string with no host

ArgWords == {<<"ls">>, <<"status">>}
Commands == SeqsUpTo(ArgWords, MaxCmdLen)

\* -s, -c and -g form a mutually exclusive group (lines 53-59)
Modes == {"none", "shell", "connect", "git"}

Namespace(mode, identity, cmd) ==
    [identity |-> identity, command |-> cmd,
     shell |-> mode = "shell", connect |-> mode = "connect",
     git |-> mode = "git"]

NoArgs == Namespace("none", <<>>, <<>>)

\* os.environ['SHELL']: unset, empty or a path
ShellEnv == {[set |-> FALSE, value |-> <<>>],
             [set |-> TRUE, value |-> <<>>],
             [set |-> TRUE, value |-> <<"/", "bin", "/", "sh">>]}

Key(k, v) == k \o <<"=">> \o v
RemoteUrl(name) == <<"remote", ".">> \o name \o <<".", "url">>

GitLines ==
    { Key(RemoteUrl(<<"origin">>), <<"git", "@", "example.com", ":", "repo">>),
      Key(RemoteUrl(<<"origin">>), <<"bob", "@", "other.org", ":", "proj", " ">>),
      Key(RemoteUrl(<<"upstream">>), <<"git", "@", "example.com", ":", "up">>),
      Key(RemoteUrl(<<"origin">>),
          <<"https", ":", "/", "/", "example.com", "/", "repo">>),
      Key(RemoteUrl(<<"upstream">>), <<"git", "@", "example.com", "/", "up">>),
      Key(<<"branch", ".">> \o RemoteUrl(<<"origin">>),
          <<"eve", "@", "evil.org", ":", "x">>),
      Key(<<"user", ".", "name">>, <<"alice">>) }

\* the output of `git config --local --list`: one "key=value" line each
Lines(ls) == Flatten([i \in 1..Len(ls) |-> ls[i] \o <<"\n">>])
GitOutputs == {Lines(ls) : ls \in SeqsUpTo(GitLines, MaxGitLines)}

\* the configurations a run of the agent reads: no, one and two matches
RunGitOutputs ==
    {Lines(ls) : ls \in SeqsUpTo(GitLines, 1)}
    \cup {Lines(<<l1, l2>>) : l1 \in GitLines, l2 \in GitLines}

\* exported public-key line: algorithm, base64 key material, label
ExportedKey(lbl) ==
    <<"ecdsa-sha2-nistp256", " ", "AAAA", " ">> \o lbl \o <<"\n">>

ExitStatuses == 0..MaxExitStatus

NoChild == [state |-> "none", command |-> <<>>, use_shell |-> FALSE,
            status |-> <<>>]

\* os.environ before run_agent reads it
NoEnviron == [set |-> FALSE, value |-> <<>>]

\* the device before a Client is built around it: no identity, no session
NoDevice == [identity_dict |-> [proto |-> <<>>, host |-> <<>>],
             curve_name |-> <<>>, session |-> <<>>]

NoAttempts == [git |-> 0, export |-> 0, import |-> 0, serve |-> 0,
               spawn |-> 0, sign |-> 0]

Bump(f, k) == [f EXCEPT ![k] = @ + 1]

----------------------------------------------------------------------------
(* Control flow of main / run_agent.                                       *)

\* Raising e at position `at` unwinds to the innermost enclosing scope:
\* the `with server.serve` block (128-131), the `try` (123-133), the
\* `with client_factory` block (97-133), then the caller (main).
InServe == {"run_process", "wait"}
InTry == {"serve_enter"} \cup InServe
InClient == {"resolve", "get_public_key", "build_command", "branch",
             "import_key"} \cup InTry

Unwind_pastServe(at) ==
    IF at \in InTry \/ at = "import_key" THEN "except"
    ELSE IF at \in InClient THEN "client_exit"
    ELSE "main_return"

Unwind(at) ==
    IF at \in InServe THEN "serve_exit"
    ELSE IF at \in InTry \/ at = "import_key" THEN "except"
    ELSE IF at \in InClient THEN "client_exit"
    ELSE "main_return"

Raise(e, at) ==
    /\ exc' = e
    /\ raised' = Append(raised, e)
    /\ pc' = Unwind(at)

\* The straight-line order of run_agent's steps inside the client scope:
\* identity resolution (98-106), key export (108), command construction
\* (110-117), the branch on `not command` (119).
RunOrder_exportFirst ==
    <<"get_public_key", "resolve", "build_command", "branch">>

RunOrder == <<"resolve", "get_public_key", "build_command", "branch">>

After(p) ==
    LET i == CHOOSE k \in 1..Len(RunOrder) : RunOrder[k] = p
    IN  RunOrder[i + 1]

\* line 119: `if not command`
NoCommand_never(cmd) == FALSE

NoCommand(cmd) == cmd = <<>>

\* line 132: `except KeyboardInterrupt`
Catches_nothing(e) == FALSE

Catches_all(e) == TRUE

Catches(e) == e = "KeyboardInterrupt"

\* line 94: args = create_agent_parser().parse_args()
ParseArgs ==
    /\ UNCHANGED <<decVars, cliVars, environ>>
    /\ pc = "parse_args"
    /\ \E mode \in Modes, identity \in IdentityArgs, cmd \in Commands :
          args' = Namespace(mode, identity, cmd)
    /\ pc' = "with_client"
    /\ UNCHANGED <<conn, label, command, use_shell, public_key, git_output,
                   stdout, server, child, retval, exc, raised, exit_status,
                   events, attempts, signs>>

\* line 97: with client_factory(curve=args.ecdsa_curve_name) as conn
EnterClient ==
    /\ UNCHANGED <<decVars, cliVars, environ>>
    /\ pc = "with_client"
    /\ \/ /\ conn' = "open"
          /\ pc' = RunOrder[1]
          /\ UNCHANGED <<exc, raised>>
       \/ /\ Raise("DeviceError", "with_client")
          /\ UNCHANGED conn
    /\ UNCHANGED <<args, label, command, use_shell, public_key, git_output,
                   stdout, server, child, retval, exit_status, events,
                   attempts, signs>>

\* lines 98-106: label, command; in git mode the git-remote lookup
git_command_always(cmd) == <<Str("git")>> \o cmd

\* lines 105-106: if command: command = ['git'] + command
git_command(cmd) == IF cmd # <<>> THEN <<Str("git")>> \o cmd ELSE cmd

ResolveIdentity ==
    /\ UNCHANGED <<decVars, cliVars, environ>>
    /\ pc = "resolve"
    /\ IF args.git
       THEN \E output \in RunGitOutputs :
              LET r == git_host(args.identity, output)
              IN  /\ git_output' = output
                  /\ attempts' = Bump(attempts, "git")
                  /\ events' = Append(events, "git_lookup")
                  /\ IF r.ok
                     THEN /\ label' = r.value
                          /\ command' = git_command(args.command)
                          /\ pc' = After("resolve")
                          /\ UNCHANGED <<exc, raised>>
                     ELSE /\ Raise(r.exc, "resolve")
                          /\ label' = args.identity
                          /\ command' = args.command
       ELSE /\ label' = args.identity
            /\ command' = args.command
            /\ pc' = After("resolve")
            /\ UNCHANGED <<git_output, attempts, events, exc, raised>>
    /\ UNCHANGED <<args, conn, use_shell, public_key, stdout, server, child,
                   retval, exit_status, signs>>

\* line 108: public_key = conn.get_public_key(label=label)
GetPublicKey ==
    /\ UNCHANGED <<decVars, cliVars, environ>>
    /\ pc = "get_public_key"
    /\ attempts' = Bump(attempts, "export")
    /\ \/ /\ public_key' = ExportedKey(label)
          /\ events' = Append(events, "export_key")
          /\ pc' = After("get_public_key")
          /\ UNCHANGED <<exc, raised>>
       \/ /\ Raise("DeviceError", "get_public_key")
          /\ UNCHANGED <<public_key, events>>
    /\ UNCHANGED <<args, conn, label, command, use_shell, git_output, stdout,
                   server, child, retval, exit_status, signs>>

\* lines 110-117: connect mode builds the ssh command, shell mode takes
\* os.environ['SHELL']
BuildCommand ==
    /\ UNCHANGED <<decVars, cliVars>>
    /\ pc = "build_command"
    /\ IF args.connect
       THEN LET r == ssh_args(label)
            IN  IF r.ok
                THEN /\ command' = r.value \o args.command
                     /\ use_shell' = FALSE
                     /\ pc' = After("build_command")
                     /\ UNCHANGED <<exc, raised, environ>>
                ELSE /\ Raise(r.exc, "build_command")
                     /\ UNCHANGED <<command, use_shell, environ>>
       ELSE IF args.shell
       THEN \E env \in ShellEnv :
              /\ use_shell' = TRUE
              /\ environ' = env
              /\ IF env.set
                 THEN /\ command' = env.value
                      /\ pc' = After("build_command")
                      /\ UNCHANGED <<exc, raised>>
                 ELSE /\ Raise("KeyError", "build_command")
                      /\ UNCHANGED command
       ELSE /\ use_shell' = FALSE
            /\ pc' = After("build_command")
            /\ UNCHANGED <<command, exc, raised, environ>>
    /\ UNCHANGED <<args, conn, label, public_key, git_output, stdout, server,
                   child, retval, exit_status, events, attempts, signs>>

\* lines 119-121: no command: write the key and return
WriteKey ==
    /\ UNCHANGED <<decVars, cliVars, environ>>
    /\ pc = "branch"
    /\ NoCommand(command)
    /\ stdout' = Append(stdout, public_key)
    /\ events' = Append(events, "write_key")
    /\ retval' = <<>>
    /\ pc' = "client_exit"
    /\ UNCHANGED <<args, conn, label, command, use_shell, public_key,
                   git_output, server, child, exc, raised, exit_status,
                   attempts, signs>>

\* lines 123-127: signer, formats.import_public_key, protocol.Handler
ImportKey ==
    /\ UNCHANGED <<decVars, cliVars, environ>>
    /\ pc = "branch"
    /\ ~NoCommand(command)
    /\ attempts' = Bump(attempts, "import")
    /\ \/ /\ pc' = "serve_enter"
          /\ UNCHANGED <<exc, raised>>
       \/ Raise("FormatError", "import_key")
    /\ UNCHANGED <<args, conn, label, command, use_shell, public_key,
                   git_output, stdout, server, child, retval, exit_status,
                   events, signs>>

\* line 128: with server.serve(handler=handler, timeout=args.timeout) as env
ServeEnter ==
    /\ UNCHANGED <<decVars, cliVars, environ>>
    /\ pc = "serve_enter"
    /\ server' = "serving"
    /\ attempts' = Bump(attempts, "serve")
    /\ events' = Append(events, "serve_start")
    /\ pc' = "run_process"
    /\ UNCHANGED <<args, conn, label, command, use_shell, public_key,
                   git_output, stdout, child, retval, exc, raised,
                   exit_status, signs>>

\* lines 129-131: server.run_process(command, environ, use_shell) starts
\* the child
Spawn ==
    /\ UNCHANGED <<decVars, cliVars, environ>>
    /\ pc = "run_process"
    /\ child' = [state |-> "running", command |-> command,
                 use_shell |-> use_shell, status |-> <<>>]
    /\ attempts' = Bump(attempts, "spawn")
    /\ events' = Append(events, "spawn")
    /\ pc' = "wait"
    /\ UNCHANGED <<args, conn, label, command, use_shell, public_key,
                   git_output, stdout, server, retval, exc, raised,
                   exit_status, signs>>

\* lines 129-131: run_process waits for the child; `return` hands its
\* status out through the serve scope, a failed wait raises
WaitChild ==
    /\ UNCHANGED <<decVars, cliVars, environ>>
    /\ pc = "wait"
    /\ \/ \E st \in ExitStatuses :
            /\ child' = [child EXCEPT !.state = "exited", !.status = <<st>>]
            /\ retval' = <<st>>
            /\ pc' = "serve_exit"
            /\ UNCHANGED <<exc, raised>>
       \/ /\ Raise("OSError", "wait")
          /\ UNCHANGED <<child, retval>>
    /\ UNCHANGED <<args, conn, label, command, use_shell, public_key,
                   git_output, stdout, server, exit_status, events, attempts,
                   signs>>

\* Error handling design: an error of the signer is surfaced to the
\* orchestrator, inside the serve scope.
Surface(e) == Raise(e, "wait")

\* lines 86-89, 124: the agent server hands a sign request to the signer,
\* ssh_sign, which calls the device once and lets its error propagate
SignRequest ==
    /\ UNCHANGED <<decVars, cliVars, environ>>
    /\ pc = "wait"
    /\ server = "serving"
    /\ Len(signs) < MaxSignRequests
    /\ \E outcome \in {"signature", "DeviceError", "ProtocolError"} :
          /\ signs' = Append(signs, [label |-> label, outcome |-> outcome])
          /\ attempts' = Bump(attempts, "sign")
          /\ IF outcome = "signature"
             THEN UNCHANGED <<pc, exc, raised>>
             ELSE Surface(outcome)
    /\ UNCHANGED <<args, conn, label, command, use_shell, public_key,
                   git_output, stdout, server, child, retval, exit_status,
                   events>>

\* the parent process receives an interrupt signal: KeyboardInterrupt is
\* raised wherever run_agent is
Interrupt ==
    /\ UNCHANGED <<decVars, cliVars, environ>>
    /\ pc \in {"with_client"} \cup InClient
    /\ pc # "import_key"
    /\ "KeyboardInterrupt" \notin {raised[i] : i \in 1..Len(raised)}
    /\ Raise("KeyboardInterrupt", pc)
    /\ events' = Append(events, "interrupt")
    /\ UNCHANGED <<args, conn, label, command, use_shell, public_key,
                   git_output, stdout, server, child, retval, exit_status,
                   attempts, signs>>

\* line 128: leaving the serve scope, by return or by exception
ServeExit ==
    /\ UNCHANGED <<decVars, cliVars, environ>>
    /\ pc = "serve_exit"
    /\ server' = "stopped"
    /\ events' = Append(events, "serve_stop")
    /\ pc' = IF exc # None THEN "except" ELSE "client_exit"
    /\ UNCHANGED <<args, conn, label, command, use_shell, public_key,
                   git_output, stdout, child, retval, exc, raised,
                   exit_status, attempts, signs>>

\* lines 132-133: KeyboardInterrupt is caught and logged, run_agent falls
\* off its end; any other exception goes on
Except ==
    /\ UNCHANGED <<decVars, cliVars, environ>>
    /\ pc = "except"
    /\ IF Catches(exc)
       THEN /\ exc' = None
            /\ retval' = <<>>
       ELSE UNCHANGED <<exc, retval>>
    /\ pc' = "client_exit"
    /\ UNCHANGED <<args, conn, label, command, use_shell, public_key,
                   git_output, stdout, server, child, raised, exit_status,
                   events, attempts, signs>>

\* line 97: leaving the client scope, by return or by exception
ClientExit ==
    /\ UNCHANGED <<decVars, cliVars, environ>>
    /\ pc = "client_exit"
    /\ conn' = "closed"
    /\ pc' = "main_return"
    /\ UNCHANGED <<args, label, command, use_shell, public_key, git_output,
                   stdout, server, child, retval, exc, raised, exit_status,
                   events, attempts, signs>>

\* lines 136-138: main calls run_agent and drops its value; an exception
\* leaves main uncaught.  The entry point exits with main's value: None is
\* status 0, an uncaught exception status 1.
MainStatus(e, value) == IF e # None THEN <<1>> ELSE <<0>>

MainReturn ==
    /\ UNCHANGED <<decVars, cliVars, environ>>
    /\ pc = "main_return"
    /\ exit_status' = MainStatus(exc, retval)
    /\ pc' = "exited"
    /\ UNCHANGED <<args, conn, label, command, use_shell, public_key,
                   git_output, stdout, server, child, retval, exc, raised,
                   events, attempts, signs>>

----------------------------------------------------------------------------
(* Challenge Decoder: client._parse_ssh_blob over io.BytesIO and           *)
(* util.read_frame.  A stream is the data and the count of bytes read.     *)

\* 4-byte big-endian unsigned length
BE32(b) == b[1] * 16777216 + b[2] * 65536 + b[3] * 256 + b[4]
U32(n) == <<(n \div 16777216) % 256, (n \div 65536) % 256,
            (n \div 256) % 256, n % 256>>

\* a frame: 4-byte big-endian length, then that many payload bytes
Frame(payload) == U32(Len(payload)) \o payload

\* util.read_frame(i): fails when the length or the payload is cut short
read_frame(data, pos) ==
    IF pos + 4 > Len(data)
    THEN [ok |-> FALSE, exc |-> "ProtocolError"]
    ELSE LET n == BE32(SubSeq(data, pos + 1, pos + 4))
         IN  IF pos + 4 + n > Len(data)
             THEN [ok |-> FALSE, exc |-> "ProtocolError"]
             ELSE [ok |-> TRUE,
                   value |-> SubSeq(data, pos + 5, pos + 4 + n),
                   pos |-> pos + 4 + n]

\* io.BytesIO.read(1): one byte, or none at the end of the data; no error
read1(data, pos) == IF pos < Len(data) THEN pos + 1 ELSE pos

\* formats.parse_pubkey(blob): curve point and fingerprint of the key blob
parse_pubkey(b) == [curve_point |-> b, fingerprint |-> <<"fp">> \o b]

\* lines 52-59: what is read, in order; "" is i.read(1)
FieldOrder_userFirst ==
    <<"user", "", "nonce", "conn", "auth", "", "key_type", "public_key">>

FieldOrder ==
    <<"nonce", "", "user", "conn", "auth", "", "key_type", "public_key">>

\* line 61: assert not i.read()
AllConsumed_unchecked(data, pos) == TRUE

AllConsumed(data, pos) == pos >= Len(data)

NoFields == [nonce |-> <<>>, user |-> <<>>, conn |-> <<>>, auth |-> <<>>,
             key_type |-> <<>>, public_key |-> <<>>]

RECURSIVE parse_steps(_, _, _, _)
parse_steps(data, pos, k, res) ==
    IF k > Len(FieldOrder)
    THEN IF AllConsumed(data, pos)
         THEN [ok |-> TRUE,
               value |-> [res EXCEPT
                            !.public_key = parse_pubkey(res.public_key)]]
         ELSE [ok |-> FALSE, exc |-> "AssertionError"]
    ELSE IF FieldOrder[k] = ""
    THEN parse_steps(data, read1(data, pos), k + 1, res)
    ELSE LET r == read_frame(data, pos)
         IN  IF ~r.ok THEN r
             ELSE parse_steps(data, r.pos, k + 1,
                              [res EXCEPT ![FieldOrder[k]] = r.value])

_parse_ssh_blob(data) == parse_steps(data, 0, 1, NoFields)

----------------------------------------------------------------------------
(* Challenge blobs given to the decoder: a well-formed blob (the wire      *)
(* format: frames in the fixed order, one marker byte after the nonce and  *)
(* one after the auth method), and the ways of damaging one.               *)

FieldNames == <<"nonce", "user", "conn", "auth", "key_type", "public_key">>

\* the byte each field is filled with, so that fields differ
FieldByte == [nonce |-> 9, user |-> 0, conn |-> 1, auth |-> 7,
              key_type |-> 2, public_key |-> 3]

Payload(name, n) == [i \in 1..n |-> FieldByte[name]]

\* the marker bytes are read and not checked; SSH2_MSG_USERAUTH_REQUEST is
\* 50 and have_sig is 1 (lines 53, 57)
MarkerBytes == {0, 1, 50}

\* the eight items of a blob, in wire order
Items(f, m1, m2) ==
    <<Frame(f.nonce), <<m1>>, Frame(f.user), Frame(f.conn), Frame(f.auth),
      <<m2>>, Frame(f.key_type), Frame(f.public_key)>>

FrameItems == {1, 3, 4, 5, 7, 8}
MarkerItems == {2, 6}

Encode(f, m1, m2) == Flatten(Items(f, m1, m2))

\* the blob with item d left out
Without(f, m1, m2, d) ==
    Flatten([i \in 1..7 |-> Items(f, m1, m2)[IF i < d THEN i ELSE i + 1]])

Build(p) ==
    LET whole == Encode(p.fields, p.m1, p.m2)
    IN  CASE p.damage = "none" -> whole
          [] p.damage = "truncate" -> Upto(whole, p.at)
          [] p.damage = "drop" -> Without(p.fields, p.m1, p.m2, p.at)
          [] p.damage = "trailing" -> whole \o [i \in 1..p.at |-> 0]

FieldSets ==
    {[nonce |-> Payload("nonce", n[1]), user |-> Payload("user", n[2]),
      conn |-> Payload("conn", n[3]), auth |-> Payload("auth", n[4]),
      key_type |-> Payload("key_type", n[5]),
      public_key |-> Payload("public_key", n[6])] :
        n \in [1..6 -> 0..MaxPayload]}

Damages(f, m1, m2) ==
    {[damage |-> "none", at |-> 0]}
    \cup {[damage |-> "truncate", at |-> k] :
             k \in 0..(Len(Encode(f, m1, m2)) - 1)}
    \cup {[damage |-> "drop", at |-> d] : d \in 1..8}
    \cup {[damage |-> "trailing", at |-> k] : k \in 1..MaxTrailing}

NoParts == [fields |-> NoFields, m1 |-> 0, m2 |-> 0, damage |-> "none",
            at |-> 0]

NotDecoded == [ok |-> FALSE, exc |-> None]

----------------------------------------------------------------------------
(* Client (client.py) over its device.  The device is the one object the   *)
(* Client holds (self.device): its identity_dict, its curve_name and its   *)
(* session, which is <<>> when closed and <<i>> while call i of `ops` holds *)
(* it.  A call of get_public_key or sign_ssh_challenge is a record of      *)
(* `ops`; its stage is the statement it executes next.                     *)

\* Client.__init__ (lines 17-20): device.identity_dict['proto'] = 'ssh'
Client_init_opens(d) ==
    [d EXCEPT !.identity_dict.proto = <<"ssh">>, !.session = <<0>>]

Client_init(d) == [d EXCEPT !.identity_dict.proto = <<"ssh">>]

\* the devices a Client can be built around
DeviceProtos == {<<>>, <<"ssh">>, <<"gpg">>}
DeviceHosts == {<<"example.com">>, <<"other.org">>}
Curves == {<<"nist256p1">>, <<"ed25519">>}

Devices ==
    {[identity_dict |-> [proto |-> p, host |-> h], curve_name |-> c,
      session |-> <<>>] :
        p \in DeviceProtos, h \in DeviceHosts, c \in Curves}

\* device.identity_str(): the identity as text
identity_str(d) ==
    d.identity_dict.proto \o <<":", "/", "/">> \o d.identity_dict.host

\* device.pubkey(): the compressed public key of the device's identity
device_pubkey(d) == <<"point">> \o d.identity_dict.host

\* formats.decompress_pubkey and formats.export_public_key (lines 27-30)
decompress_pubkey(pubkey, curve_name) ==
    [curve |-> curve_name, point |-> pubkey]

export_public_key(vk, lbl) ==
    (IF vk.curve = <<"ed25519">> THEN <<"ssh-ed25519">>
                                 ELSE <<"ecdsa-sha2-nistp256">>)
    \o <<" ">> \o vk.point \o <<" ">> \o lbl \o <<"\n">>

\* device.sign(...): the signature the device makes for what it is given
device_sign(d, a) == <<"sig">> \o a.blob

\* a call of the Client, at its first statement; `before` is the device as
\* the call found it, `req` the request of `signs` the call is made for
NewOp(kind, first, b, lbl, vis) ==
    [kind |-> kind, stage |-> first, blob |-> b, label |-> lbl,
     visual |-> vis, msg |-> NotDecoded, entered |-> FALSE, exc |-> None,
     value |-> <<>>, before |-> device,
     req |-> IF kind = "get_public_key" THEN 0 ELSE Len(signs) + 1]

Done == {"returned", "raised"}
InProgress(o) == o.stage \notin Done

\* the statements of get_public_key (lines 24-30) and of
\* sign_ssh_challenge (lines 34-46), in their order
KeyOrder == <<"with_device", "pubkey", "with_exit">>

SignOrder_deviceFirst == <<"with_device", "parse", "log", "sign", "with_exit">>

SignOrder == <<"parse", "log", "with_device", "sign", "with_exit">>

Order(kind) == IF kind = "get_public_key" THEN KeyOrder ELSE SignOrder

StageAfter(kind, stage) ==
    LET i == CHOOSE k \in 1..Len(Order(kind)) : Order(kind)[k] = stage
    IN  Order(kind)[i + 1]

\* what the body of `with self.device` can raise: a DeviceError (a timeout
\* included); get_public_key runs in the main thread, where the interrupt
\* signal raises KeyboardInterrupt
BodyFailures(kind) ==
    IF kind = "get_public_key" THEN {"DeviceError", "KeyboardInterrupt"}
    ELSE {"DeviceError"}

\* the calls that may take a step: get_public_key while its caller waits
\* for it, sign_ssh_challenge while the agent server is serving
MayRun(o) ==
    \/ pc = "client"
    \/ o.kind = "get_public_key" /\ pc = "get_public_key"
    \/ o.kind = "sign_ssh_challenge" /\ pc = "wait" /\ server = "serving"

\* `with self.device` (lines 24, 45).  When __enter__ raises, the block is
\* not entered and __exit__ is not called; an exception of the body passes
\* through __exit__; leaving the block closes the session.
AfterEnterFailure_exits == "with_exit"

AfterEnterFailure == "raised"

AfterBody_leak(failed) == IF failed THEN "raised" ELSE "with_exit"

AfterBody(failed) == "with_exit"

with_exit_open(d) == d

with_exit(d) == [d EXCEPT !.session = <<>>]

\* the device's open: a session that is open is not opened again, the
\* conflict is a DeviceError; a closed one opens or fails (unavailable)
device_open(d) == IF d.session # <<>> THEN {FALSE} ELSE {TRUE, FALSE}

\* what a call hands to the device: pubkey() takes nothing (line 25),
\* sign takes blob=blob alone (line 46).  An argument not passed is <<>>,
\* one passed is <<v>>.
sign_args_nonce(o) ==
    [blob |-> o.msg.value.nonce, label |-> <<>>, visual |-> <<>>]

sign_args(o) == [blob |-> o.blob, label |-> <<>>, visual |-> <<>>]

device_args(o) ==
    IF o.kind = "get_public_key"
    THEN [blob |-> <<>>, label |-> <<>>, visual |-> <<>>]
    ELSE sign_args(o)

\* the variables of run_agent a call of the Client leaves alone
callerVars == <<args, conn, label, command, use_shell, git_output, stdout,
                server, child, retval, exit_status, signs, attempts>>

\* what a finished call hands to its caller: run_agent takes the key line
\* of get_public_key (line 108) or its exception; the exception of a sign
\* request surfaces in the orchestrator
Settle(o) ==
    IF pc = "get_public_key" /\ o.stage = "returned"
    THEN /\ public_key' = o.value
         /\ events' = Append(events, "export_key")
         /\ pc' = After("get_public_key")
         /\ UNCHANGED <<exc, raised>>
    ELSE IF pc = "get_public_key" /\ o.stage = "raised"
    THEN /\ Raise(o.exc, "get_public_key")
         /\ UNCHANGED <<public_key, events>>
    ELSE IF pc = "wait" /\ o.stage = "raised"
    THEN /\ Surface(o.exc)
         /\ UNCHANGED <<public_key, events>>
    ELSE UNCHANGED <<pc, exc, raised, public_key, events>>

\* lines 24, 45: entering `with self.device` opens the device session
DeviceEnter ==
    /\ UNCHANGED <<decVars, environ, callerVars, dev_calls, clock>>
    /\ \E i \in 1..Len(ops) :
          /\ ops[i].stage = "with_device"
          /\ MayRun(ops[i])
          /\ \E opened \in device_open(device) :
                LET o == IF opened
                         THEN [ops[i] EXCEPT
                                 !.stage = StageAfter(ops[i].kind,
                                                      "with_device"),
                                 !.entered = TRUE]
                         ELSE [ops[i] EXCEPT !.stage = AfterEnterFailure,
                                             !.exc = "DeviceError"]
                IN  /\ ops' = [ops EXCEPT ![i] = o]
                    /\ device' = IF opened
                                 THEN [device EXCEPT !.session = <<i>>]
                                 ELSE device
                    /\ Settle(o)

\* lines 25, 46: the device operation inside the block; it returns a value
\* or fails with a DeviceError (a timeout included)
DeviceCall ==
    /\ UNCHANGED <<decVars, environ, callerVars, device, clock>>
    /\ \E i \in 1..Len(ops) :
          /\ ops[i].stage \in {"pubkey", "sign"}
          /\ MayRun(ops[i])
          /\ dev_calls' = Append(dev_calls,
                                 [op |-> ops[i].stage, by |-> i,
                                  args |-> device_args(ops[i]),
                                  session |-> device.session])
          /\ \E e \in {None} \cup BodyFailures(ops[i].kind) :
                LET failed == e # None
                    o == [ops[i] EXCEPT
                            !.stage = AfterBody(failed),
                            !.exc = e,
                            !.value =
                               IF failed THEN <<>>
                               ELSE IF ops[i].kind = "get_public_key"
                               THEN device_pubkey(device)
                               ELSE device_sign(device, sign_args(ops[i]))]
                IN  /\ ops' = [ops EXCEPT ![i] = o]
                    /\ Settle(o)

\* leaving `with self.device`; get_public_key then exports the key with
\* the label identity_str() (lines 27-30), sign_ssh_challenge returns what
\* the device returned (line 46)
DeviceExit ==
    /\ UNCHANGED <<decVars, environ, callerVars, dev_calls, clock>>
    /\ \E i \in 1..Len(ops) :
          /\ ops[i].stage = "with_exit"
          /\ MayRun(ops[i])
          /\ device' = with_exit(device)
          /\ LET o == IF ops[i].exc # None
                      THEN [ops[i] EXCEPT !.stage = "raised"]
                      ELSE IF ops[i].kind = "get_public_key"
                      THEN [ops[i] EXCEPT
                              !.stage = "returned",
                              !.value = export_public_key(
                                  decompress_pubkey(ops[i].value,
                                                    device.curve_name),
                                  identity_str(device))]
                      ELSE [ops[i] EXCEPT !.stage = "returned"]
             IN  /\ ops' = [ops EXCEPT ![i] = o]
                 /\ Settle(o)

\* the calls made of get_public_key
KeyCalls == SelectSeq(ops, LAMBDA o : o.kind = "get_public_key")

\* line 108 (and a caller of the Client alone): get_public_key is called;
\* run_agent calls it once, and waits for it
CallGetPublicKey ==
    /\ UNCHANGED <<decVars, environ, device, dev_calls, clock>>
    /\ \/ pc = "get_public_key" /\ KeyCalls = <<>>
       \/ pc = "client" /\ Len(KeyCalls) < MaxKeyCalls
    /\ \A i \in 1..Len(ops) : ~InProgress(ops[i])
    /\ ops' = Append(ops, NewOp("get_public_key", KeyOrder[1], <<>>, <<>>,
                                <<>>))
    /\ attempts' = Bump(attempts, "export")
    /\ UNCHANGED <<pc, args, conn, label, command, use_shell, public_key,
                   git_output, stdout, server, child, retval, exc, raised,
                   exit_status, events, signs>>

\* the challenges the agent server hands to the signer: well-formed ones
\* whose user is ASCII ("a"), is not ASCII, or whose nonce is not ASCII,
\* and one cut short
Challenge(user, nonce) ==
    [nonce |-> nonce, user |-> user, conn |-> Payload("conn", 1),
     auth |-> Payload("auth", 1), key_type |-> Payload("key_type", 1),
     public_key |-> Payload("public_key", 1)]

SignBlobs ==
    LET plain == Encode(Challenge(<<97>>, <<9>>), 50, 1)
    IN  { plain,
          Encode(Challenge(<<200>>, <<9>>), 50, 1),
          Encode(Challenge(<<97>>, <<200>>), 50, 1),
          Upto(plain, Len(plain) - 1) }

\* bytes.decode('ascii') succeeds on bytes below 128 only
IsAscii(bytes) == \A i \in 1..Len(bytes) : bytes[i] < 128

\* the calls made of sign_ssh_challenge
SignCalls == SelectSeq(ops, LAMBDA o : o.kind = "sign_ssh_challenge")

\* ssh_sign (lines 86-89): the agent server hands a request to the signer,
\* which reads the clock and calls conn.sign_ssh_challenge(label=label,
\* blob=blob, visual=now); requests of the server may overlap
CallSign ==
    /\ UNCHANGED <<decVars, environ, device, dev_calls>>
    /\ pc = "wait"
    /\ server = "serving"
    /\ Len(SignCalls) < MaxSignRequests
    /\ \E b \in SignBlobs :
          /\ signs' = Append(signs, [label |-> label, blob |-> b,
                                     visual |-> <<clock>>])
          /\ ops' = Append(ops, NewOp("sign_ssh_challenge", SignOrder[1], b,
                                      label, <<clock>>))
    /\ clock' = clock + 1
    /\ attempts' = Bump(attempts, "sign")
    /\ UNCHANGED <<pc, args, conn, label, command, use_shell, public_key,
                   git_output, stdout, server, child, retval, exc, raised,
                   exit_status, events>>

\* line 34: msg = _parse_ssh_blob(blob)
SignParse ==
    /\ UNCHANGED <<decVars, environ, callerVars, device, dev_calls, clock>>
    /\ \E i \in 1..Len(ops) :
          /\ ops[i].stage = "parse"
          /\ MayRun(ops[i])
          /\ LET r == _parse_ssh_blob(ops[i].blob)
                 o == IF r.ok
                      THEN [ops[i] EXCEPT
                              !.msg = r,
                              !.stage = StageAfter(ops[i].kind, "parse")]
                      ELSE [ops[i] EXCEPT !.exc = r.exc, !.stage = "raised"]
             IN  /\ ops' = [ops EXCEPT ![i] = o]
                 /\ Settle(o)

\* lines 35-43: the summary is logged; the arguments of log.info are
\* evaluated first, msg['user'].decode('ascii') among them (line 42)
SignLog ==
    /\ UNCHANGED <<decVars, environ, callerVars, device, dev_calls, clock>>
    /\ \E i \in 1..Len(ops) :
          /\ ops[i].stage = "log"
          /\ MayRun(ops[i])
          /\ LET o == IF IsAscii(ops[i].msg.value.user)
                      THEN [ops[i] EXCEPT
                              !.stage = StageAfter(ops[i].kind, "log")]
                      ELSE [ops[i] EXCEPT !.exc = "UnicodeDecodeError",
                                          !.stage = "raised"]
             IN  /\ ops' = [ops EXCEPT ![i] = o]
                 /\ Settle(o)

\* Client(device): run_agent makes its Client at line 97
NewClient ==
    /\ UNCHANGED <<decVars, environ, ops, dev_calls, clock>>
    /\ pc \in {"with_client", "client_new"}
    /\ device' = Client_init(device)
    /\ IF pc = "with_client"
       THEN /\ conn' = "open"
            /\ pc' = RunOrder[1]
       ELSE /\ pc' = "client"
            /\ UNCHANGED conn
    /\ UNCHANGED <<args, label, command, use_shell, public_key, git_output,
                   stdout, server, child, retval, exc, raised, exit_status,
                   events, attempts, signs>>

----------------------------------------------------------------------------
(* Specifications.                                                         *)

OrchIdle(at) ==
    /\ pc = at
    /\ args = NoArgs
    /\ conn = "none"
    /\ label = <<>>
    /\ command = <<>>
    /\ use_shell = FALSE
    /\ public_key = <<>>
    /\ git_output = <<>>
    /\ stdout = <<>>
    /\ server = "idle"
    /\ child = NoChild
    /\ retval = <<>>
    /\ exc = None
    /\ raised = <<>>
    /\ exit_status = <<>>
    /\ events = <<>>
    /\ attempts = NoAttempts
    /\ signs = <<>>

DecIdle ==
    /\ blob = <<>>
    /\ parts = NoParts
    /\ decoded = NotDecoded

\* no Client constructed, nothing asked of it, SHELL not looked up
CliIdle ==
    /\ environ = NoEnviron
    /\ device = NoDevice
    /\ ops = <<>>
    /\ dev_calls = <<>>
    /\ clock = 0

\* one invocation of the program: main -> run_agent
Init == OrchIdle("parse_args") /\ DecIdle /\ CliIdle

Next ==
    \/ ParseArgs
    \/ EnterClient
    \/ ResolveIdentity
    \/ GetPublicKey
    \/ BuildCommand
    \/ WriteKey
    \/ ImportKey
    \/ ServeEnter
    \/ Spawn
    \/ WaitChild
    \/ SignRequest
    \/ Interrupt
    \/ ServeExit
    \/ Except
    \/ ClientExit
    \/ MainReturn

Spec == Init /\ [][Next]_vars

\* git_host applied to a remote name and a git configuration
InitGit ==
    /\ pc = "git_host"
    /\ \E name \in RemoteNames : args = Namespace("git", name, <<>>)
    /\ git_output \in GitOutputs
    /\ conn = "none"
    /\ label = <<>>
    /\ command = <<>>
    /\ use_shell = FALSE
    /\ public_key = <<>>
    /\ stdout = <<>>
    /\ server = "idle"
    /\ child = NoChild
    /\ retval = <<>>
    /\ exc = None
    /\ raised = <<>>
    /\ exit_status = <<>>
    /\ events = <<>>
    /\ attempts = NoAttempts
    /\ signs = <<>>
    /\ DecIdle
    /\ CliIdle

GitHostCall ==
    /\ pc = "git_host"
    /\ LET r == git_host(args.identity, git_output)
       IN  IF r.ok
           THEN /\ label' = r.value
                /\ pc' = "git_returned"
                /\ UNCHANGED <<exc, raised>>
           ELSE /\ exc' = r.exc
                /\ raised' = Append(raised, r.exc)
                /\ pc' = "git_raised"
                /\ UNCHANGED label
    /\ UNCHANGED <<args, conn, command, use_shell, public_key, git_output,
                   stdout, server, child, retval, exit_status, events,
                   attempts, signs, decVars, cliVars, environ>>

SpecGit == InitGit /\ [][GitHostCall]_vars

\* _parse_ssh_blob applied to a blob
InitDecode ==
    /\ OrchIdle("decode")
    /\ \E f \in FieldSets, m1 \in MarkerBytes, m2 \in MarkerBytes :
          \E d \in Damages(f, m1, m2) :
             parts = [fields |-> f, m1 |-> m1, m2 |-> m2,
                      damage |-> d.damage, at |-> d.at]
    /\ blob = Build(parts)
    /\ decoded = NotDecoded
    /\ CliIdle

Decode ==
    /\ pc = "decode"
    /\ decoded' = _parse_ssh_blob(blob)
    /\ pc' = "decoded"
    /\ UNCHANGED <<args, conn, label, command, use_shell, public_key,
                   git_output, stdout, server, child, retval, exc, raised,
                   exit_status, events, attempts, signs, blob, parts,
                   cliVars, environ>>

SpecDecode == InitDecode /\ [][Decode]_vars

\* a Client built around a device and asked for its public key, again and
\* again
InitKey ==
    /\ OrchIdle("client_new")
    /\ DecIdle
    /\ environ = NoEnviron
    /\ device \in Devices
    /\ ops = <<>>
    /\ dev_calls = <<>>
    /\ clock = 0

NextKey ==
    \/ NewClient
    \/ CallGetPublicKey
    \/ DeviceEnter
    \/ DeviceCall
    \/ DeviceExit

SpecKey == InitKey /\ [][NextKey]_vars

\* a run of run_agent over the Client of client.py: the key is exported
\* by get_public_key, the requests of the agent server are signed by
\* sign_ssh_challenge
ClientArgs ==
    {Namespace("none", Render(<<>>, <<"example.com">>, <<>>, <<>>), cmd) :
        cmd \in {<<>>, <<Str("ls")>>}}

InitClient ==
    /\ pc = "with_client"
    /\ args \in ClientArgs
    /\ conn = "none"
    /\ label = <<>>
    /\ command = <<>>
    /\ use_shell = FALSE
    /\ public_key = <<>>
    /\ git_output = <<>>
    /\ stdout = <<>>
    /\ server = "idle"
    /\ child = NoChild
    /\ retval = <<>>
    /\ exc = None
    /\ raised = <<>>
    /\ exit_status = <<>>
    /\ events = <<>>
    /\ attempts = NoAttempts
    /\ signs = <<>>
    /\ DecIdle
    /\ environ = NoEnviron
    /\ device \in {d \in Devices : /\ d.identity_dict.host = <<"example.com">>
                                   /\ d.curve_name = <<"nist256p1">>}
    /\ ops = <<>>
    /\ dev_calls = <<>>
    /\ clock = 0

NextClient ==
    \/ NewClient
    \/ ResolveIdentity
    \/ CallGetPublicKey
    \/ DeviceEnter
    \/ DeviceCall
    \/ DeviceExit
    \/ BuildCommand
    \/ WriteKey
    \/ ImportKey
    \/ ServeEnter
    \/ Spawn
    \/ WaitChild
    \/ CallSign
    \/ SignParse
    \/ SignLog
    \/ ServeExit
    \/ Except
    \/ ClientExit
    \/ MainReturn

SpecClient == InitClient /\ [][NextClient]_vars

----------------------------------------------------------------------------
(* Properties of the orchestrator (specification Spec).                    *)

Exited == pc = "exited"
Has(seq, x) == \E i \in 1..Len(seq) : seq[i] = x

\* the steps of the session lifecycle, without the interrupts
Steps == SelectSeq(events, LAMBDA e : e # "interrupt")

Rank(e) ==
    CASE e = "git_lookup" -> 1
      [] e = "export_key" -> 2
      [] e = "write_key" -> 3
      [] e = "serve_start" -> 3
      [] e = "spawn" -> 4
      [] e = "serve_stop" -> 5

\* the agent branch (the try block of lines 123-133) was entered
AgentBranch == attempts.import > 0

\* C1: the steps of a run are taken only in the order git-remote lookup
\* (identity resolution), key export, then either printing the key or
\* serving (server start, child spawn, server stop): the key is exported
\* after the git lookup of a git-mode run and before any key is written, any
\* server is started or any child is spawned; a run that returns normally
\* took exactly one of the two branches.
C1_LifecycleOrder ==
    /\ \A i, j \in 1..Len(Steps) : i < j => Rank(Steps[i]) < Rank(Steps[j])
    /\ (Has(events, "write_key") \/ Has(events, "serve_start")
          \/ Has(events, "spawn") \/ AgentBranch)
         => Has(events, "export_key")
    /\ (Has(events, "export_key") /\ args.git) => Has(events, "git_lookup")
    /\ (Exited /\ exc = None) => (Has(events, "write_key") # AgentBranch)

C1_Witness ==
    /\ Exited
    /\ args.git
    /\ events = <<"git_lookup", "export_key", "serve_start", "spawn",
                  "serve_stop">>

NoSubCommand ==
    /\ pc # "parse_args"
    /\ args.command = <<>>
    /\ ~args.shell /\ ~args.connect /\ ~args.git

\* C2: with no command arguments and none of the shell, connect and git
\* flags, nothing but the exported public-key line is ever written to the
\* output, a run that returns has written exactly that line, and neither
\* the agent server nor a child process is started.
C2_PrintOnly ==
    NoSubCommand =>
        /\ server = "idle"
        /\ child.state = "none"
        /\ ~Has(events, "serve_start") /\ ~Has(events, "spawn")
        /\ stdout \in {<<>>, <<ExportedKey(args.identity)>>}
        /\ (Exited /\ exc = None) => stdout = <<ExportedKey(args.identity)>>

C2_Witness ==
    /\ NoSubCommand
    /\ Exited
    /\ stdout = <<ExportedKey(Render(<<"alice">>, <<"example.com">>,
                                     <<"2222">>, <<"repo">>))>>

\* C3: in connect mode the spawned command is ssh, then -p port iff the
\* identity has a port, then -l user iff it has a user, then the host, then
\* the extra command arguments in their order; no such identity fails.
C3_ConnectCommand ==
    \A u \in OptUsers, h \in Hosts, p \in OptPorts, pa \in OptPaths :
        (args.connect /\ args.identity = Render(u, h, p, pa)) =>
            /\ ~AgentBranch => ~Has(raised, "FormatError")
            /\ child.state # "none" =>
                 child.command =
                    <<Str("ssh")>>
                    \o (IF p # <<>> THEN <<Str("-p"), p>> ELSE <<>>)
                    \o (IF u # <<>> THEN <<Str("-l"), u>> ELSE <<>>)
                    \o <<h>>
                    \o args.command

C3_Witness ==
    /\ args.connect
    /\ args.identity = <<"ssh", ":", "/", "/", "alice", "@", "example.com",
                         ":", "2222", "/", "repo">>
    /\ args.command = <<Str("ls")>>
    /\ child.state = "running"
    /\ child.command = <<Str("ssh"), Str("-p"), Str("2222"), Str("-l"),
                         Str("alice"), Str("example.com"), Str("ls")>>

----------------------------------------------------------------------------
(* Properties of git_host (specification SpecGit).                         *)

\* the lines of a text, without their line ends
RECURSIVE LinesOf(_)
LinesOf(text) ==
    IF text = <<>> THEN <<>>
    ELSE LET i == IndexOf(text, "\n")
         IN  IF i = 0 THEN <<text>>
             ELSE <<Upto(text, i-1)>> \o LinesOf(From(text, i+1))

\* the entries of the configuration read that match remote.<name>.url=:
\* of each line holding that text, what follows it
UrlEntries ==
    LET pat  == RemoteUrl(args.identity) \o <<"=">>
        ls   == LinesOf(git_output)
        mine == SelectSeq(ls, LAMBDA l : FindFrom(l, pat, 1) > 0)
    IN  [i \in 1..Len(mine) |->
            From(mine[i], FindFrom(mine[i], pat, 1) + Len(pat))]

UrlAtoms == {"git", "bob", "eve", "example.com", "other.org", "evil.org",
             "repo", "proj", "up", "x"}

\* user@host:path, possibly followed by a blank
IsUserHostPath(e) ==
    /\ Len(e) \in {5, 6}
    /\ e[1] \in UrlAtoms /\ e[2] = "@" /\ e[3] \in UrlAtoms
    /\ e[4] = ":" /\ e[5] \in UrlAtoms
    /\ Len(e) = 6 => e[6] = " "

GitHostDone == pc \in {"git_returned", "git_raised"}

----------------------------------------------------------------------------
(* Properties of the orchestrator, continued (specification Spec).         *)

\* C5: when a run ends after the child process has finished, the exit
\* status of the invocation is the exit status of the child.
C5_ExitStatusPropagated ==
    (Exited /\ child.state = "exited" /\ exc = None)
        => exit_status = child.status

\* the run is past the serve scope
PastServe == pc \in {"except", "client_exit", "main_return", "exited"}

\* C6: once the agent server has been started it is stopped on every way
\* out of the serve scope (the child finished, the wait failed, the parent
\* was interrupted): run_agent is never past the scope, and never returns
\* or terminates, with the server still serving.
C6_ServerTornDown ==
    /\ PastServe => server # "serving"
    /\ (PastServe /\ Has(events, "serve_start")) => server = "stopped"

C6_Witness ==
    /\ Exited
    /\ raised = <<"OSError">>
    /\ server = "stopped"
    /\ child.state = "running"

\* an interrupt arrived while the agent server was serving
InterruptedServing ==
    \E i \in 1..Len(events) :
        /\ events[i] = "interrupt"
        /\ \E j \in 1..(i-1) : events[j] = "serve_start"
        /\ \A j \in 1..(i-1) : events[j] # "serve_stop"

ErrorKinds == {"FormatError", "ProtocolError", "ValueError", "DeviceError"}

\* C7: an interrupt received while the agent is serving is caught by
\* run_agent: the run returns normally and exits with status 0; a run in
\* which a FormatError, ProtocolError, configuration error (ValueError) or
\* DeviceError was raised exits with a failure status.
C7_InterruptIsCleanStop ==
    /\ (InterruptedServing /\ pc \in {"client_exit", "main_return", "exited"})
          => (exc = None /\ retval = <<>>)
    /\ (InterruptedServing /\ Exited) => exit_status = <<0>>
    /\ (Exited /\ \E e \in ErrorKinds : Has(raised, e)) => exit_status = <<1>>

C7_Witness ==
    /\ Exited
    /\ InterruptedServing
    /\ Len(signs) = 1
    /\ exit_status = <<0>>

\* C8: every FormatError, ProtocolError, configuration error (ValueError)
\* or DeviceError raised in a run reaches main uncaught and the run exits
\* with a non-zero status; no git lookup, key export or device sign is
\* attempted twice; after a failure of the identity resolution or of the
\* key export no agent server and no child is started.
C8_ErrorsSurface ==
    /\ \A e \in ErrorKinds :
          (Has(raised, e) /\ pc \in {"main_return", "exited"}) => exc = e
    /\ (Exited /\ \E e \in ErrorKinds : Has(raised, e))
          => (exit_status # <<>> /\ exit_status # <<0>>)
    /\ attempts.git <= 1 /\ attempts.export <= 1
    /\ attempts.sign = Len(signs)
    /\ (raised # <<>> /\ ~Has(events, "export_key")) =>
          /\ server = "idle"
          /\ child.state = "none"
          /\ ~AgentBranch

C8_Witness ==
    /\ Exited
    /\ raised = <<"ValueError">>
    /\ attempts.git = 1
    /\ exit_status = <<1>>

----------------------------------------------------------------------------
(* Properties of the challenge decoder (specification SpecDecode).         *)

Decoded == pc = "decoded"

\* C9: a well-formed blob (frames in the order nonce, marker byte, user,
\* connection id, auth method, marker byte, key type, public-key blob) is
\* decoded, and nonce, user, conn, auth and key_type come back byte for
\* byte, the last frame as the public-key parser's result.
C9_DecodeRecoversFields ==
    (Decoded /\ parts.damage = "none") =>
        /\ decoded.ok
        /\ decoded.value.nonce = parts.fields.nonce
        /\ decoded.value.user = parts.fields.user
        /\ decoded.value.conn = parts.fields.conn
        /\ decoded.value.auth = parts.fields.auth
        /\ decoded.value.key_type = parts.fields.key_type
        /\ decoded.value.public_key = parse_pubkey(parts.fields.public_key)

C9_Witness ==
    /\ Decoded
    /\ parts.damage = "none"
    /\ \A i \in 1..Len(FieldNames) : parts.fields[FieldNames[i]] # <<>>
    /\ decoded.ok
    /\ decoded.value.user = Payload("user", MaxPayload)

\* C10: decoding fails, and yields no challenge, for a blob cut short
\* anywhere (a frame length beyond the remaining bytes, a marker position
\* with no byte), for a blob with one frame or one marker byte left out,
\* and for a blob with bytes after the last frame.
C10_DecodeRejectsDamage ==
    (Decoded /\ parts.damage # "none") =>
        /\ ~decoded.ok
        /\ decoded.exc \in {"ProtocolError", "AssertionError"}
        /\ DOMAIN decoded = {"ok", "exc"}

C10_Witness ==
    /\ Decoded
    /\ parts.damage = "trailing"
    /\ decoded = [ok |-> FALSE, exc |-> "AssertionError"]

----------------------------------------------------------------------------
(* The command run under the agent (specification Spec).                   *)

\* the identity a git-mode run resolved from the configuration it read
ResolvedLabel == git_host(args.identity, git_output).value

\* C17: the command run under the agent is chosen by mode.  In shell mode
\* the child is the value of SHELL, run as a shell command, whatever the
\* positional arguments were.  In git mode with a command the child is git
\* followed by that command, and the key is exported for the identity
\* resolved from the git remote, not for the remote name.  In git mode
\* without a command no child is run and a run that returns has printed the
\* key of the resolved identity.
C17_CommandByMode ==
    /\ (args.shell /\ child.state # "none") =>
          /\ environ.set
          /\ child.command = environ.value
          /\ child.use_shell
    /\ (args.git /\ args.command # <<>> /\ child.state # "none") =>
          /\ child.command = <<Str("git")>> \o args.command
          /\ ~child.use_shell
    /\ (args.git /\ public_key # <<>>) =>
          /\ public_key = ExportedKey(ResolvedLabel)
          /\ public_key # ExportedKey(args.identity)
    /\ (args.git /\ args.command = <<>>) =>
          /\ child.state = "none"
          /\ ~Has(events, "spawn")
          /\ (Exited /\ exc = None) => stdout = <<ExportedKey(ResolvedLabel)>>

C17_Witness ==
    /\ args.git
    /\ args.identity = <<"origin">>
    /\ args.command = <<Str("ls")>>
    /\ public_key = ExportedKey(<<"ssh", ":", "/", "/", "git", "@",
                                  "example.com", "/", "repo">>)
    /\ child.state = "running"
    /\ child.command = <<Str("git"), Str("ls")>>

----------------------------------------------------------------------------
(* Properties of Client.get_public_key (specification SpecKey).            *)

Returned(o) == o.stage = "returned"

----------------------------------------------------------------------------
(* Properties of the Client's device sessions (specification SpecClient).  *)

\* call i is inside its `with self.device` block
InBlock(i) == ops[i].entered /\ InProgress(ops[i])

IsSign(o) == o.kind = "sign_ssh_challenge"

\* C11: a call of get_public_key or sign_ssh_challenge that has returned
\* or raised, whatever it raised, no longer holds the device session it
\* opened.
C11_SessionClosedOnExit ==
    \A i \in 1..Len(ops) : ~InProgress(ops[i]) => device.session # <<i>>

C11_Witness ==
    /\ Len(ops) = 2
    /\ ops[1].kind = "get_public_key" /\ Returned(ops[1]) /\ ops[1].entered
    /\ IsSign(ops[2]) /\ ops[2].entered
    /\ ops[2].stage = "raised" /\ ops[2].exc = "DeviceError"
    /\ device.session = <<>>

\* the orchestrator prints the key, starts the agent server or waits for
\* the child
Orchestrating ==
    pc \in {"branch", "import_key", "serve_enter", "run_process", "wait"}

OverlappingOpen(i) ==
    /\ i \in 1..Len(ops)
    /\ ops[i].stage = "with_device"
    /\ device.session # <<>>
    /\ ops'[i].stage # "with_device"

----------------------------------------------------------------------------
(* Properties of Client.sign_ssh_challenge (specification SpecClient).     *)

\* the sign operations the device was asked for
IsDeviceSign(c) == c.op = "sign"

\* C14: logging the summary never changes what sign_ssh_challenge does: a
\* call whose blob decodes, whatever the bytes of its fields, goes on to
\* the device, so if it raises at all it raises the device's error.
C14_LogNeverBlocksSign ==
    \A i \in 1..Len(ops) :
        (IsSign(ops[i]) /\ _parse_ssh_blob(ops[i].blob).ok
           /\ ops[i].stage = "raised") =>
            ops[i].exc = "DeviceError"

\* C15: every sign operation of the device carries the identity label of
\* the request it is made for and, as visual context, the time ssh_sign
\* read for that request.
C15_SignCarriesLabelAndVisual ==
    \A k \in 1..Len(dev_calls) :
        IsDeviceSign(dev_calls[k]) =>
            LET request == signs[ops[dev_calls[k].by].req]
            IN  /\ dev_calls[k].args.label = <<request.label>>
                /\ dev_calls[k].args.visual = request.visual

\* C18: a call whose blob does not decode never reaches the device: it
\* never gets to its `with self.device` statement, holds no session, makes
\* no device operation and returns no signature.
C18_DecodeBeforeDevice ==
    \A i \in 1..Len(ops) :
        (IsSign(ops[i]) /\ ~_parse_ssh_blob(ops[i].blob).ok) =>
            /\ ops[i].stage \in {"parse", "raised"}
            /\ ~ops[i].entered
            /\ device.session # <<i>>
            /\ \A k \in 1..Len(dev_calls) : dev_calls[k].by # i
            /\ ops[i].value = <<>>

C18_Witness ==
    /\ Len(ops) = 2
    /\ IsSign(ops[2])
    /\ ~_parse_ssh_blob(ops[2].blob).ok
    /\ ops[2].stage = "raised" /\ ops[2].exc = "ProtocolError"
    /\ dev_calls = <<[op |-> "pubkey", by |-> 1,
                      args |-> [blob |-> <<>>, label |-> <<>>,
                                visual |-> <<>>],
                      session |-> <<1>>]>>

\* C19: the blob the device is asked to sign is the blob of the request,
\* byte for byte; decoding leaves the call's blob as the request gave it,
\* and the challenge a call logs is decoded from its own blob, not kept
\* from an earlier request.
C19_BlobPassedUnchanged ==
    /\ \A k \in 1..Len(dev_calls) :
          IsDeviceSign(dev_calls[k]) =>
              dev_calls[k].args.blob = signs[ops[dev_calls[k].by].req].blob
    /\ \A i \in 1..Len(ops) :
          IsSign(ops[i]) =>
              /\ ops[i].blob = signs[ops[i].req].blob
              /\ ops[i].msg.ok =>
                    ops[i].msg = _parse_ssh_blob(signs[ops[i].req].blob)

C19_Witness ==
    /\ Len(ops) = 3
    /\ Returned(ops[2]) /\ Returned(ops[3])
    /\ signs[1].blob # signs[2].blob
    /\ ops[2].msg.value.nonce = <<9>> /\ ops[3].msg.value.nonce = <<200>>
    /\ Len(dev_calls) = 3
    /\ dev_calls[2].args.blob = signs[1].blob
    /\ dev_calls[3].args.blob = signs[2].blob

====
